---- MODULE Spec2Model ----
(***************************************************************************)
(* Model of the MCP shopper tools client (mcp_inventory_client.py) and of  *)
(* the tool / prompt handlers of the inventory server                      *)
(* (mcp_inventory_server.py).                                              *)
(*                                                                         *)
(* Text is a sequence of one-character strings, so that json.dumps and     *)
(* json.loads are computed character by character.  A Python value is a    *)
(* pair <<type, payload>>.                                                 *)
(***************************************************************************)
EXTENDS Integers, Sequences, FiniteSets, TLC

(***************************************************************************)
(* Python values                                                           *)
(***************************************************************************)
PyNone == <<"null", 0>>
PyBool(b) == <<"bool", b>>
PyInt(n) == <<"int", n>>
PyFloat(lit) == <<"float", lit>>
PyStr(s) == <<"str", s>>
PyList(xs) == <<"list", xs>>
PyTuple(xs) == <<"tuple", xs>>
\* a dict is its items in insertion order, each <<key, value>>
PyDict(items) == <<"dict", items>>
TypeOf(x) == x[1]
ValueOf(x) == x[2]

(***************************************************************************)
(* json.loads, as the standard decoder scans: json/decoder.py and          *)
(* json/scanner.py, reached from call_tool line 59.                        *)
(***************************************************************************)
Digits == {"0", "1", "2", "3", "4", "5", "6", "7", "8", "9"}
JsonWhitespace == {" ", "\t", "\n", "\r"}

DigitVal(c) ==
    CASE c = "0" -> 0 [] c = "1" -> 1 [] c = "2" -> 2 [] c = "3" -> 3
      [] c = "4" -> 4 [] c = "5" -> 5 [] c = "6" -> 6 [] c = "7" -> 7
      [] c = "8" -> 8 [] c = "9" -> 9

CharAt(s, i) == IF i >= 1 /\ i <= Len(s) THEN s[i] ELSE "<eof>"

\* s[i .. i+Len(w)-1] = w
StartsWithAt(s, i, w) ==
    /\ i + Len(w) - 1 <= Len(s)
    /\ \A k \in 1..Len(w) : s[i + k - 1] = w[k]

RECURSIVE SkipWhitespace(_, _)
SkipWhitespace(s, i) ==
    IF CharAt(s, i) \in JsonWhitespace THEN SkipWhitespace(s, i + 1) ELSE i

RECURSIVE SkipDigits(_, _)
SkipDigits(s, i) ==
    IF CharAt(s, i) \in Digits THEN SkipDigits(s, i + 1) ELSE i

RECURSIVE DigitsValue(_, _, _, _)
DigitsValue(s, i, j, acc) ==
    IF i >= j THEN acc ELSE DigitsValue(s, i + 1, j, acc * 10 + DigitVal(s[i]))

ParseFail == [ok |-> FALSE, v |-> PyNone, i |-> 0]
ParseOk(val, next) == [ok |-> TRUE, v |-> val, i |-> next]

\* NUMBER_RE = (-?(?:0|[1-9][0-9]*))(\.[0-9]+)?([eE][-+]?[0-9]+)?
ScanNumber(s, i) ==
    LET neg == CharAt(s, i) = "-"
        d0 == IF neg THEN i + 1 ELSE i
        intEnd == IF CharAt(s, d0) = "0" THEN d0 + 1 ELSE SkipDigits(s, d0)
        fracEnd == IF CharAt(s, intEnd) = "." /\ CharAt(s, intEnd + 1) \in Digits
                   THEN SkipDigits(s, intEnd + 1) ELSE intEnd
        e0 == IF CharAt(s, fracEnd + 1) \in {"+", "-"} THEN fracEnd + 2 ELSE fracEnd + 1
        expEnd == IF CharAt(s, fracEnd) \in {"e", "E"} /\ CharAt(s, e0) \in Digits
                  THEN SkipDigits(s, e0) ELSE fracEnd
        mag == DigitsValue(s, d0, intEnd, 0)
    IN  IF CharAt(s, d0) \notin Digits THEN ParseFail
        ELSE IF expEnd = intEnd
             THEN ParseOk(PyInt(IF neg THEN 0 - mag ELSE mag), intEnd)
             ELSE ParseOk(PyFloat(SubSeq(s, i, expEnd - 1)), expEnd)

\* the character a backslash escape stands for (BACKSLASH in json/decoder.py);
\* \b, \f and \uXXXX stand for characters outside the modelled alphabet
EscapedChar(c) ==
    CASE c = "\"" -> "\"" [] c = "\\" -> "\\" [] c = "/" -> "/"
      [] c = "n" -> "\n" [] c = "r" -> "\r" [] c = "t" -> "\t"
      [] OTHER -> "<bad>"

ControlChars == {"\t", "\n", "\r"}

\* py_scanstring(s, i) with strict = True; i is the index after the opening quote
RECURSIVE ScanString(_, _, _)
ScanString(s, i, acc) ==
    LET c == CharAt(s, i)
    IN  IF i > Len(s) THEN ParseFail
        ELSE IF c = "\"" THEN ParseOk(acc, i + 1)
        ELSE IF c = "\\"
             THEN IF i + 1 > Len(s) \/ EscapedChar(s[i + 1]) = "<bad>"
                  THEN ParseFail
                  ELSE ScanString(s, i + 2, Append(acc, EscapedChar(s[i + 1])))
        ELSE IF c \in ControlChars THEN ParseFail
        ELSE ScanString(s, i + 1, Append(acc, c))

\* dict(pairs): a repeated key keeps its first position and its last value
RECURSIVE DictFromPairs(_, _)
DictFromPairs(pairs, acc) ==
    IF pairs = <<>> THEN acc
    ELSE LET p == Head(pairs)
             hit == {k \in 1..Len(acc) : acc[k][1] = p[1]}
         IN  DictFromPairs(Tail(pairs),
                 IF hit = {} THEN Append(acc, p)
                 ELSE [k \in 1..Len(acc) |-> IF k \in hit THEN p ELSE acc[k]])

RECURSIVE ScanOnce(_, _), ScanArrayItems(_, _, _), ScanObjectItems(_, _, _)
\* _scan_once of json/scanner.py
ScanOnce(s, i) ==
    LET c == CharAt(s, i)
    IN  IF i > Len(s) THEN ParseFail
        ELSE IF c = "\""
             THEN LET r == ScanString(s, i + 1, <<>>)
                  IN  IF r.ok THEN ParseOk(PyStr(r.v), r.i) ELSE ParseFail
        ELSE IF c = "{"
             THEN LET j == SkipWhitespace(s, i + 1)
                  IN  IF CharAt(s, j) = "}" THEN ParseOk(PyDict(<<>>), j + 1)
                      ELSE IF CharAt(s, j) # "\"" THEN ParseFail
                      ELSE ScanObjectItems(s, j + 1, <<>>)
        ELSE IF c = "["
             THEN LET j == SkipWhitespace(s, i + 1)
                  IN  IF CharAt(s, j) = "]" THEN ParseOk(PyList(<<>>), j + 1)
                      ELSE ScanArrayItems(s, j, <<>>)
        ELSE IF StartsWithAt(s, i, <<"n", "u", "l", "l">>) THEN ParseOk(PyNone, i + 4)
        ELSE IF StartsWithAt(s, i, <<"t", "r", "u", "e">>) THEN ParseOk(PyBool(TRUE), i + 4)
        ELSE IF StartsWithAt(s, i, <<"f", "a", "l", "s", "e">>)
             THEN ParseOk(PyBool(FALSE), i + 5)
        ELSE IF ScanNumber(s, i).ok THEN ScanNumber(s, i)
        ELSE IF StartsWithAt(s, i, <<"N", "a", "N">>)
             THEN ParseOk(PyFloat(<<"N", "a", "N">>), i + 3)
        ELSE IF StartsWithAt(s, i, <<"I", "n", "f", "i", "n", "i", "t", "y">>)
             THEN ParseOk(PyFloat(SubSeq(s, i, i + 7)), i + 8)
        ELSE IF StartsWithAt(s, i, <<"-", "I", "n", "f", "i", "n", "i", "t", "y">>)
             THEN ParseOk(PyFloat(SubSeq(s, i, i + 8)), i + 9)
        ELSE ParseFail

\* the loop of JSONArray; i is the index of the next value
ScanArrayItems(s, i, acc) ==
    LET r == ScanOnce(s, i)
        j == SkipWhitespace(s, r.i)
    IN  IF ~r.ok THEN ParseFail
        ELSE IF CharAt(s, j) = "]" THEN ParseOk(PyList(Append(acc, r.v)), j + 1)
        ELSE IF CharAt(s, j) # "," THEN ParseFail
        ELSE ScanArrayItems(s, SkipWhitespace(s, j + 1), Append(acc, r.v))

\* the loop of JSONObject; i is the index after the opening quote of the next key
ScanObjectItems(s, i, acc) ==
    LET k == ScanString(s, i, <<>>)
        colon == SkipWhitespace(s, k.i)
        r == ScanOnce(s, SkipWhitespace(s, colon + 1))
        j == SkipWhitespace(s, r.i)
        q == SkipWhitespace(s, j + 1)
        items == Append(acc, <<PyStr(k.v), r.v>>)
    IN  IF ~k.ok \/ CharAt(s, colon) # ":" THEN ParseFail
        ELSE IF ~r.ok THEN ParseFail
        ELSE IF CharAt(s, j) = "}"
             THEN ParseOk(PyDict(DictFromPairs(items, <<>>)), j + 1)
        ELSE IF CharAt(s, j) # "," \/ CharAt(s, q) # "\"" THEN ParseFail
        ELSE ScanObjectItems(s, q + 1, items)

\* json.loads(s): [ok |-> the text parsed, v |-> the value]; not ok stands for
\* json.JSONDecodeError
json_loads(s) ==
    LET r == ScanOnce(s, SkipWhitespace(s, 1))
    IN  IF r.ok /\ SkipWhitespace(s, r.i) = Len(s) + 1
        THEN [ok |-> TRUE, v |-> r.v]
        ELSE [ok |-> FALSE, v |-> PyNone]

(***************************************************************************)
(* json.dumps with its defaults (separators ", " and ": "), as the tool    *)
(* handlers call it: mcp_inventory_server.py lines 46, 61, 75, 90.         *)
(***************************************************************************)
DigitChar(d) ==
    CASE d = 0 -> "0" [] d = 1 -> "1" [] d = 2 -> "2" [] d = 3 -> "3"
      [] d = 4 -> "4" [] d = 5 -> "5" [] d = 6 -> "6" [] d = 7 -> "7"
      [] d = 8 -> "8" [] d = 9 -> "9"

RECURSIVE NatText(_)
NatText(n) ==
    IF n < 10 THEN <<DigitChar(n)>> ELSE Append(NatText(n \div 10), DigitChar(n % 10))

IntText(n) == IF n < 0 THEN <<"-">> \o NatText(0 - n) ELSE NatText(n)

\* encode_basestring_ascii without the quotes
RECURSIVE EscapeText(_)
EscapeText(s) ==
    IF s = <<>> THEN <<>>
    ELSE LET c == Head(s)
             e == CASE c = "\"" -> <<"\\", "\"">>
                    [] c = "\\" -> <<"\\", "\\">>
                    [] c = "\n" -> <<"\\", "n">>
                    [] c = "\r" -> <<"\\", "r">>
                    [] c = "\t" -> <<"\\", "t">>
                    [] OTHER -> <<c>>
         IN  e \o EscapeText(Tail(s))

Quoted(s) == <<"\"">> \o EscapeText(s) \o <<"\"">>

RECURSIVE json_dumps(_), DumpItems(_), DumpPairs(_)
json_dumps(x) ==
    CASE TypeOf(x) = "null" -> <<"n", "u", "l", "l">>
      [] TypeOf(x) = "bool" -> IF ValueOf(x) THEN <<"t", "r", "u", "e">>
                         ELSE <<"f", "a", "l", "s", "e">>
      [] TypeOf(x) = "int" -> IntText(ValueOf(x))
      [] TypeOf(x) = "float" -> ValueOf(x)
      [] TypeOf(x) = "str" -> Quoted(ValueOf(x))
      [] TypeOf(x) \in {"list", "tuple"} -> <<"[">> \o DumpItems(ValueOf(x)) \o <<"]">>
      [] TypeOf(x) = "dict" -> <<"{">> \o DumpPairs(ValueOf(x)) \o <<"}">>

DumpItems(xs) ==
    IF xs = <<>> THEN <<>>
    ELSE json_dumps(Head(xs))
         \o (IF Len(xs) > 1 THEN <<",", " ">> ELSE <<>>) \o DumpItems(Tail(xs))

\* a key that is not a str is written as the str of it (an int key 1 as "1")
DumpPairs(ps) ==
    IF ps = <<>> THEN <<>>
    ELSE LET k == Head(ps)[1]
             key == IF TypeOf(k) = "str" THEN Quoted(ValueOf(k)) ELSE Quoted(json_dumps(k))
         IN  key \o <<":", " ">> \o json_dumps(Head(ps)[2])
             \o (IF Len(ps) > 1 THEN <<",", " ">> ELSE <<>>) \o DumpPairs(Tail(ps))

(***************************************************************************)
(* Bounds of the model                                                     *)
(***************************************************************************)
\* concurrent callers (asyncio tasks), each running one public operation;
\* they are numbered in the order they start
NumTasks == 2

Tasks == 1..NumTasks

(***************************************************************************)
(* Endpoints.  A URL is <<base, path>>.                                    *)
(***************************************************************************)
LocalBase == "http://localhost:8000"
\* __init__'s default, line 26
InitDefaultUrl == <<LocalBase, "/sse">>
\* get_mcp_client's default argument, line 200
GetClientDefaultUrl == <<LocalBase, "/see">>
OtherUrl == <<"http://shop.example", "/sse">>
\* what a caller may pass as server_url; NoUrl is None / the argument left out
NoUrl == <<"", "">>
UrlArgs == {NoUrl, OtherUrl}

(***************************************************************************)
(* The server: declared tools, their handlers, the protocol's answers.     *)
(***************************************************************************)
ToolNames == {"get_product_recommendations", "check_product_inventory",
              "get_customer_discount", "generate_product_image"}

\* the parameters each handler requires (size has a default)
RequiredParams(name) ==
    CASE name = "get_product_recommendations" -> {"question"}
      [] name = "check_product_inventory" -> {"product_id"}
      [] name = "get_customer_discount" -> {"customer_id"}
      [] name = "generate_product_image" -> {"prompt"}

TextBlock(s) == [type |-> "text", text |-> s]
\* an image block has data and a mime type, and no text attribute
ImageBlock == [type |-> "image", data |-> "aGk=", mimeType |-> "image/png"]
HasText(block) == "text" \in DOMAIN block

Envelope(content, isError) == [content |-> content, isError |-> isError]

\* str(x) of a value that is not a str: Python's own rendering
RECURSIVE py_str(_), StrItems(_), StrPairs(_)
py_str(x) ==
    CASE TypeOf(x) = "null" -> <<"N", "o", "n", "e">>
      [] TypeOf(x) = "bool" -> IF ValueOf(x) THEN <<"T", "r", "u", "e">>
                               ELSE <<"F", "a", "l", "s", "e">>
      [] TypeOf(x) = "int" -> IntText(ValueOf(x))
      [] TypeOf(x) = "float" -> ValueOf(x)
      [] TypeOf(x) = "str" -> <<"'">> \o ValueOf(x) \o <<"'">>
      [] TypeOf(x) = "list" -> <<"[">> \o StrItems(ValueOf(x)) \o <<"]">>
      [] TypeOf(x) = "tuple" -> <<"(">> \o StrItems(ValueOf(x)) \o <<")">>
      [] TypeOf(x) = "dict" -> <<"{">> \o StrPairs(ValueOf(x)) \o <<"}">>

StrItems(xs) ==
    IF xs = <<>> THEN <<>>
    ELSE py_str(Head(xs)) \o (IF Len(xs) > 1 THEN <<",", " ">> ELSE <<>>) \o StrItems(Tail(xs))

StrPairs(ps) ==
    IF ps = <<>> THEN <<>>
    ELSE py_str(Head(ps)[1]) \o <<":", " ">> \o py_str(Head(ps)[2])
         \o (IF Len(ps) > 1 THEN <<",", " ">> ELSE <<>>) \o StrPairs(Tail(ps))

\* a handler that sends str(result) in place of json.dumps(result)
HandlerTextStr(result) ==
    IF TypeOf(result) = "str" THEN ValueOf(result) ELSE py_str(result)

\* every handler body: json.dumps(result) if not isinstance(result, str) else result
HandlerText(result) ==
    IF TypeOf(result) = "str" THEN ValueOf(result) ELSE json_dumps(result)

UnknownToolText == <<"U", "n", "k", "n", "o", "w", "n", " ", "t", "o", "o", "l">>
ToolErrorText == <<"E", "r", "r", "o", "r", " ", "e", "x", "e", "c", "u", "t", "i", "n", "g">>

\* what the collaborators (app.tools) return in the concurrent model
CollabValues ==
    { PyDict(<<<<PyStr(<<"i", "d">>), PyStr(<<"P", "1">>)>>,
               <<PyStr(<<"o", "k">>), PyBool(TRUE)>>>>),
      PyStr(<<"h", "i">>) }

\* the arguments mappings of the concurrent model: the parameter names bound
ArgSets == {{}, {"product_id"}}

\* a collaborator that raises in place of returning a value
CollabRaises == <<"raises", 0>>
CollabResults == CollabValues \cup {CollabRaises}

\* what the handler of a declared tool answers when its collaborator ends with r
HandlerAnswer(r) ==
    IF r = CollabRaises THEN Envelope(<<TextBlock(ToolErrorText)>>, TRUE)
    ELSE Envelope(<<TextBlock(HandlerText(r))>>, FALSE)

\* The answers of tools/call for (name, arguments), the collaborator ending
\* with one of results: the handler's text in one text block; an error result
\* (isError) for a name that is not declared, for arguments that do not bind
\* and for a collaborator that raises.
ServerCallTool(name, args, results) ==
    IF name \notin ToolNames THEN {Envelope(<<TextBlock(UnknownToolText)>>, TRUE)}
    ELSE IF ~(RequiredParams(name) \subseteq args)
         THEN {Envelope(<<TextBlock(ToolErrorText)>>, TRUE)}
    ELSE {HandlerAnswer(r) : r \in results}

\* the tool descriptors tools/list answers with: name, docstring, schema (here
\* the required parameters)
Descriptor(name) ==
    [name |-> name,
     description |-> CASE name = "get_product_recommendations" -> "Search for product recommendations"
                       [] name = "check_product_inventory" -> "Check inventory availability"
                       [] name = "get_customer_discount" -> "Calculate available discounts"
                       [] name = "generate_product_image" -> "Generate an AI image",
     inputSchema |-> RequiredParams(name)]

DeclaredTools ==
    <<Descriptor("get_product_recommendations"), Descriptor("check_product_inventory"),
      Descriptor("get_customer_discount"), Descriptor("generate_product_image")>>

\* the answers of tools/list: the declared tools; an endpoint serving no tool
\* answers with none
ToolListings == {DeclaredTools, <<>>}

\* agent names and texts are sequences of characters
Cora == <<"c", "o", "r", "a">>
CustomerLoyalty == <<"c", "u", "s", "t", "o", "m", "e", "r", "_", "l", "o", "y", "a", "l", "t", "y">>
DiscountLogic == <<"d", "i", "s", "c", "o", "u", "n", "t", "_", "l", "o", "g", "i", "c">>
InteriorDesigner == <<"i", "n", "t", "e", "r", "i", "o", "r", "_", "d", "e", "s", "i", "g", "n", "e", "r">>
Inventory == <<"i", "n", "v", "e", "n", "t", "o", "r", "y">>
UnknownAgent == <<"u", "n", "k", "n", "o", "w", "n", "_", "a", "g", "e", "n", "t">>

\* prompt_files, lines 117-123: its keys, and the file of each key
PromptKeys == {Cora, CustomerLoyalty, DiscountLogic, InteriorDesigner, Inventory}

prompt_files(agent) ==
    CASE agent = Cora -> "ShopperAgentPrompt.txt"
      [] agent = CustomerLoyalty -> "CustomerLoyaltyAgentPrompt.txt"
      [] agent = DiscountLogic -> "DiscountLogicPrompt.txt"
      [] agent = InteriorDesigner -> "InteriorDesignAgentPrompt.txt"
      [] agent = Inventory -> "InventoryAgentPrompt.txt"

\* str.lower, character by character: the upper-case ASCII letters map to
\* their lower-case ones, every other character of the model to itself
UpperLetters == <<"A", "B", "C", "D", "E", "F", "G", "H", "I", "J", "K", "L", "M", "N", "O", "P", "Q", "R", "S", "T", "U", "V", "W", "X", "Y", "Z">>
LowerLetters == <<"a", "b", "c", "d", "e", "f", "g", "h", "i", "j", "k", "l", "m", "n", "o", "p", "q", "r", "s", "t", "u", "v", "w", "x", "y", "z">>

LowerChar(ch) ==
    IF \E i \in 1..Len(UpperLetters) : UpperLetters[i] = ch
    THEN LowerLetters[CHOOSE i \in 1..Len(UpperLetters) : UpperLetters[i] = ch]
    ELSE ch

Lower(agent) == [i \in 1..Len(agent) |-> LowerChar(agent[i])]

\* read_prompt_file, lines 97-101: the text of the file; the text of a file
\* is written here as one element that names the file
read_prompt_file(filename) == <<"{", filename, "}">>

UnknownAgentText == <<"U", "n", "k", "n", "o", "w", "n", " ", "a", "g", "e", "n", "t", " ", "n", "a", "m", "e">>
ValidOptionsText == <<".", " ", "V", "a", "l", "i", "d", " ", "o", "p", "t", "i", "o", "n", "s", " ", "a", "r", "e", ":", " ", "c", "o", "r", "a", ",", " ", "c", "u", "s", "t", "o", "m", "e", "r", "_", "l", "o", "y", "a", "l", "t", "y", ",", " ", "d", "i", "s", "c", "o", "u", "n", "t", "_", "l", "o", "g", "i", "c", ",", " ", "i", "n", "t", "e", "r", "i", "o", "r", "_", "d", "e", "s", "i", "g", "n", "e", "r", ",", " ", "i", "n", "v", "e", "n", "t", "o", "r", "y">>

\* the agent ids and tool names the callers of the concurrent model pass
AgentIds == {<<"C", "O", "R", "A">>, UnknownAgent}
CalledTools == {"check_product_inventory", "no_such_tool"}

\* a handler that looks the name up as it is given (no lower())
agentPromptAsGiven(agent_name) ==
    IF agent_name \in PromptKeys
    THEN read_prompt_file(prompt_files(agent_name))
    ELSE UnknownAgentText \o <<":", " ">> \o agent_name \o ValidOptionsText

\* agentPrompt, lines 110-129
agentPrompt(agent_name) ==
    IF Lower(agent_name) \in PromptKeys
    THEN read_prompt_file(prompt_files(Lower(agent_name)))
    ELSE UnknownAgentText \o <<":", " ">> \o agent_name \o ValidOptionsText

PromptResult(messages) == [messages |-> messages]

\* the message a prompt handler's text is sent as
PromptMessage(text) == [role |-> "user", content |-> TextBlock(text)]

\* the answers of prompts/get for agentPrompt: the handler's text as one user
\* message; a server may also answer with no message
ServerGetPrompt(agent_name) ==
    { PromptResult(<<PromptMessage(agentPrompt(agent_name))>>),
      PromptResult(<<>>) }

(***************************************************************************)
(* The client: MCPShopperToolsClient and get_mcp_client.                   *)
(***************************************************************************)
VARIABLES
    _mcp_client,  \* the module-level singleton: None (0) or an index of clients
    clients,      \* the MCPShopperToolsClient objects constructed so far
    tasks,        \* each caller: where it stands in its operation
    sessions,     \* the session each caller's operation opened, if any
    log,          \* the records the logger emitted (level WARNING and above)
                  \* in each caller's operation
    pure          \* the input and output of a pure function under check

vars == <<_mcp_client, clients, tasks, sessions, log, pure>>

None == 0

\* outcomes of a call, as its caller sees them
NoOutcome == <<"none", 0>>
Return(v) == <<"return", v>>
Raise(e) == <<"raise", e>>
Cancelled == <<"raise", "CancelledError">>
ClientRef(c) == <<"client", c>>

\* __init__, lines 20-27; _initialized is set by cleanup alone: "unset" before
\* it, "False" after
NewClient(server_url) ==
    [server_url |-> IF server_url = NoUrl THEN InitDefaultUrl ELSE server_url,
     available_tools |-> <<>>,
     _initialized |-> "unset"]

\* pc: idle, connect, initialize, request (the suspension points), closing, done;
\* op, self, url, name, args: the operation and its arguments; fault: the
\* step of the operation that failed, or "cancel"; after: the callers whose
\* operation had ended when this call_tool was issued
IdleTask == [pc |-> "idle", op |-> "none", self |-> None, url |-> NoUrl, name |-> "",
             args |-> {}, fault |-> "none", outcome |-> NoOutcome, after |-> {}]

\* wire: the messages sent on the session, in order; reply: the answer
\* received to the request (none yet, or the one)
NoReply == <<>>
NoSession == [state |-> "none", url |-> NoUrl, wire |-> <<>>, reply |-> NoReply]

\* the module as imported: no singleton, no client, no call started
InitMain ==
    /\ _mcp_client = None
    /\ clients = <<>>
    /\ tasks = [t \in Tasks |-> IdleTask]
    /\ sessions = [t \in Tasks |-> NoSession]
    /\ log = [t \in Tasks |-> <<>>]

Init ==
    /\ InitMain
    /\ pure = <<>>

(***************************************************************************)
(* The bodies that run once the protocol has answered.                     *)
(***************************************************************************)
\* str(result_data) of an envelope with no content
StrOfEnvelope(result_data) ==
    <<"m", "e", "t", "a", "=", "N", "o", "n", "e", " ",
      "c", "o", "n", "t", "e", "n", "t", "=", "[", "]", " ",
      "i", "s", "E", "r", "r", "o", "r", "=">>
    \o (IF result_data.isError THEN <<"T", "r", "u", "e">>
        ELSE <<"F", "a", "l", "s", "e">>)

\* a decoder that never parses
DecodeTextRaw(result) == Return(PyStr(result))

\* call_tool lines 56-63: the payload is a str; parse it, or keep it
DecodeText(result) ==
    LET parsed == json_loads(result)
    IN  IF parsed.ok THEN Return(parsed.v) ELSE Return(PyStr(result))

\* call_tool lines 50-63; reading .text of a block that has none raises
CallToolBody(result_data) ==
    IF Len(result_data.content) > 0
    THEN IF HasText(result_data.content[1])
         THEN DecodeText(result_data.content[1].text)
         ELSE Raise("AttributeError")
    ELSE DecodeText(StrOfEnvelope(result_data))

\* a conversion that takes the description for the name
ToLLMFormatSwapped(tools_result) ==
    [i \in 1..Len(tools_result) |->
        [type |-> "function",
         function |-> [name |-> tools_result[i].description,
                       description |-> tools_result[i].name,
                       parameters |-> tools_result[i].inputSchema]]]

\* get_mcp_tools_llm lines 96-106
ToLLMFormat(tools_result) ==
    [i \in 1..Len(tools_result) |->
        [type |-> "function",
         function |-> [name |-> tools_result[i].name,
                       description |-> tools_result[i].description,
                       parameters |-> tools_result[i].inputSchema]]]

\* a get_agent_prompt that reads messages[0] without the test of line 119
GetPromptBodyUnguarded(prompt_result) ==
    IF Len(prompt_result.messages) > 0
    THEN Return(PyStr(prompt_result.messages[1].content.text))
    ELSE Raise("IndexError")

\* get_agent_prompt lines 119-126
GetPromptBody(prompt_result) ==
    IF Len(prompt_result.messages) > 0
    THEN Return(PyStr(prompt_result.messages[1].content.text))
    ELSE Return(PyStr(<<>>))

LogRecord(level, msg) == [level |-> level, msg |-> msg]

\* an Exception; CancelledError is a BaseException, which except Exception
\* does not catch
IsException(body) == body[1] = "raise" /\ body[2] # "CancelledError"

\* get_mcp_tools_llm without its except clause: the failure is raised
OutcomeAfterReraise(op, self, body) ==
    CASE op = "get_mcp_tools_llm" ->
             IF body[1] = "return" THEN Return(PyList(ToLLMFormat(body[2]))) ELSE body
      [] op = "get_mcp_client" ->
             IF body[1] = "return" THEN Return(ClientRef(self)) ELSE body
      [] OTHER -> body

\* What the caller of operation op gets once the async with block of its
\* session has ended with outcome body (a value, or an exception).
\*   call_tool, get_agent_prompt: the block's outcome as it is;
\*   list_tools (lines 73-85): the same, an exception logged and raised again;
\*   get_mcp_tools_llm (lines 93-109): the converted list, [] on an exception;
\*   get_mcp_client (lines 203-206): the singleton, once line 205 has run.
OutcomeAfter(op, self, body) ==
    CASE op = "get_mcp_tools_llm" ->
             IF IsException(body) THEN Return(PyList(<<>>))
             ELSE IF body[1] = "return" THEN Return(PyList(ToLLMFormat(body[2])))
             ELSE body
      [] op = "get_mcp_client" ->
             IF body[1] = "return" THEN Return(ClientRef(self)) ELSE body
      [] OTHER -> body

LogAfter(op, body) ==
    IF ~IsException(body) THEN <<>>
    ELSE CASE op \in {"list_tools", "get_mcp_client"} ->
                  <<LogRecord("ERROR", "Error listing tools")>>
           [] op = "get_mcp_tools_llm" ->
                  <<LogRecord("ERROR", "Error listing tools"),
                    LogRecord("ERROR", "Error getting MCP tools in LLM format")>>
           [] OTHER -> <<>>

\* line 205: _mcp_client.available_tools = await _mcp_client.list_tools()
ClientsAfter(op, body) ==
    IF op = "get_mcp_client" /\ body[1] = "return"
    THEN [clients EXCEPT ![_mcp_client].available_tools = body[2]]
    ELSE clients

\* the operation of task t ends: its caller gets the outcome
Finish(t, body, fault) ==
    /\ tasks' = [tasks EXCEPT ![t].pc = "done",
                              ![t].fault = fault,
                              ![t].outcome = OutcomeAfter(tasks[t].op, tasks[t].self, body)]
    /\ log' = [log EXCEPT ![t] = @ \o LogAfter(tasks[t].op, body)]
    /\ clients' = ClientsAfter(tasks[t].op, body)

\* the body of the two async with blocks ends with outcome body; what is left
\* is their __aexit__, which suspends the task once more
ExitBody(t, body, fault) ==
    tasks' = [tasks EXCEPT ![t].pc = "closing", ![t].fault = fault, ![t].outcome = body]

SessionOps == {"call_tool", "list_tools", "get_mcp_tools_llm", "get_agent_prompt"}

\* the request each operation sends after initialize
RequestOf(op) ==
    CASE op = "call_tool" -> "tools/call"
      [] op = "get_agent_prompt" -> "prompts/get"
      [] OTHER -> "tools/list"

(***************************************************************************)
(* Actions: one per operation, split at its suspension points.             *)
(***************************************************************************)
\* callers start in the order of their numbers
MayStart(t) ==
    /\ tasks[t].pc = "idle"
    /\ IF t = 1 THEN TRUE ELSE tasks[t - 1].pc # "idle"

\* get_mcp_client(server_url) up to its first suspension, given the outcome
\* of the test of line 203: lines 204-205 up to the connection of list_tools,
\* or line 206 at once
GetMcpClientStep(t, server_url, unset) ==
    /\ MayStart(t)
    /\ IF unset
       THEN /\ clients' = Append(clients,
                  NewClient(IF server_url = NoUrl THEN GetClientDefaultUrl ELSE server_url))
            /\ _mcp_client' = Len(clients) + 1
            /\ tasks' = [tasks EXCEPT ![t].pc = "connect", ![t].op = "get_mcp_client",
                                      ![t].url = server_url,
                                      ![t].self = Len(clients) + 1]
       ELSE /\ tasks' = [tasks EXCEPT ![t].pc = "done", ![t].op = "get_mcp_client",
                                      ![t].url = server_url,
                                      ![t].self = _mcp_client,
                                      ![t].outcome = Return(ClientRef(_mcp_client))]
            /\ UNCHANGED <<_mcp_client, clients>>
    /\ UNCHANGED <<sessions, log, pure>>

\* a get_mcp_client that creates the singleton again while its cache is empty
StartGetMcpClientRefetch(t, server_url) ==
    GetMcpClientStep(t, server_url,
        IF _mcp_client = None THEN TRUE ELSE clients[_mcp_client].available_tools = <<>>)

\* a get_mcp_client that creates the singleton again for another server_url
StartGetMcpClientByUrl(t, server_url) ==
    GetMcpClientStep(t, server_url,
        IF _mcp_client = None THEN TRUE
        ELSE server_url # NoUrl /\ clients[_mcp_client].server_url # server_url)

\* get_mcp_client(server_url), lines 200-206, up to its first suspension: the
\* test of line 203 and the assignment of line 204 run without one
StartGetMcpClient(t, server_url) ==
    GetMcpClientStep(t, server_url, _mcp_client = None)

\* call_tool(tool_name, arguments) on client c, up to line 42
StartCallTool(t, c, tool_name, arguments) ==
    /\ MayStart(t)
    /\ tasks' = [tasks EXCEPT ![t].pc = "connect", ![t].op = "call_tool", ![t].self = c,
                              ![t].name = tool_name, ![t].args = arguments,
                              ![t].after = {u \in Tasks : tasks[u].pc = "done"}]
    /\ UNCHANGED <<_mcp_client, clients, sessions, log, pure>>

\* list_tools() on client c, up to line 74
StartListTools(t, c) ==
    /\ MayStart(t)
    /\ tasks' = [tasks EXCEPT ![t].pc = "connect", ![t].op = "list_tools", ![t].self = c]
    /\ UNCHANGED <<_mcp_client, clients, sessions, log, pure>>

\* get_mcp_tools_llm() on client c, up to line 74 (through line 95)
StartGetMcpToolsLlm(t, c) ==
    /\ MayStart(t)
    /\ tasks' = [tasks EXCEPT ![t].pc = "connect", ![t].op = "get_mcp_tools_llm",
                              ![t].self = c]
    /\ UNCHANGED <<_mcp_client, clients, sessions, log, pure>>

\* get_agent_prompt(agent_id) on client c, up to line 113
StartGetAgentPrompt(t, c, agent_id) ==
    /\ MayStart(t)
    /\ tasks' = [tasks EXCEPT ![t].pc = "connect", ![t].op = "get_agent_prompt",
                              ![t].self = c, ![t].name = agent_id]
    /\ UNCHANGED <<_mcp_client, clients, sessions, log, pure>>

\* a cleanup that tears the singleton down
cleanupTeardown(t, c) ==
    /\ MayStart(t)
    /\ clients' = [clients EXCEPT ![c]._initialized = "False", ![c].available_tools = <<>>]
    /\ _mcp_client' = None
    /\ tasks' = [tasks EXCEPT ![t].pc = "done", ![t].op = "cleanup", ![t].self = c,
                              ![t].outcome = Return(PyNone)]
    /\ UNCHANGED <<sessions, log, pure>>

\* cleanup() on client c, lines 146-150: no suspension point
cleanup(t, c) ==
    /\ MayStart(t)
    /\ clients' = [clients EXCEPT ![c]._initialized = "False"]
    /\ tasks' = [tasks EXCEPT ![t].pc = "done", ![t].op = "cleanup", ![t].self = c,
                              ![t].outcome = Return(PyNone)]
    /\ UNCHANGED <<_mcp_client, sessions, log, pure>>

\* sse_client(self.server_url) connects and ClientSession is entered; the
\* task then sends initialize and waits for the answer
Connect(t) ==
    /\ tasks[t].pc = "connect"
    /\ sessions' = [sessions EXCEPT ![t] = [state |-> "open",
                                            url |-> clients[tasks[t].self].server_url,
                                            wire |-> <<"initialize">>,
                                            reply |-> NoReply]]
    /\ tasks' = [tasks EXCEPT ![t].pc = "initialize"]
    /\ UNCHANGED <<_mcp_client, clients, log, pure>>

\* the connection cannot be made: nothing was opened, the exception reaches
\* the operation
ConnectFail(t) ==
    /\ tasks[t].pc = "connect"
    /\ Finish(t, Raise("ConnectError"), "connect")
    /\ UNCHANGED <<_mcp_client, sessions, pure>>

\* initialize is answered; the task sends its one request
Initialize(t) ==
    /\ tasks[t].pc = "initialize"
    /\ sessions' = [sessions EXCEPT ![t].state = "initialized",
                                    ![t].wire = Append(@, RequestOf(tasks[t].op))]
    /\ tasks' = [tasks EXCEPT ![t].pc = "request"]
    /\ UNCHANGED <<_mcp_client, clients, log, pure>>

InitializeFail(t) ==
    /\ tasks[t].pc = "initialize"
    /\ ExitBody(t, Raise("McpError"), "initialize")
    /\ UNCHANGED <<_mcp_client, clients, sessions, log, pure>>

\* one session for every call of the process, the first one opened
SharedSession(t) == 1

\* the session a call reads its answer from: the local variable session of
\* its own async with block (line 43)
SessionOf(t) == t

\* the request sent on the session of caller s
RequestOn(s) == [name |-> tasks[s].name, args |-> tasks[s].args]

\* What the collaborator behind a handler may end with.  In general anything
\* (a value, or an exception); where the handler is taken to be a function of
\* its arguments, pure holds that function.
Collaborator(args) ==
    IF pure = <<>> THEN CollabResults
    ELSE IF args \in DOMAIN pure.handler THEN {pure.handler[args]}
    ELSE {}

\* a call_tool that remembers nothing itself but answers None once another
\* call of the process has returned
CallToolResponseOnce(t) ==
    /\ tasks[t].pc = "request"
    /\ tasks[t].op = "call_tool"
    /\ \E result_data \in ServerCallTool(RequestOn(SessionOf(t)).name,
                                          RequestOn(SessionOf(t)).args,
                                          Collaborator(RequestOn(SessionOf(t)).args)) :
           /\ ExitBody(t, IF \E u \in Tasks : tasks[u].op = "call_tool" /\ tasks[u].pc = "done"
                          THEN Return(PyNone) ELSE CallToolBody(result_data), "none")
           /\ sessions' = [sessions EXCEPT ![t].reply = <<result_data>>]
    /\ UNCHANGED <<_mcp_client, clients, log, pure>>

\* tools/call is answered on the session of the call: call_tool lines 47-63
CallToolResponse(t) ==
    /\ tasks[t].pc = "request"
    /\ tasks[t].op = "call_tool"
    /\ \E result_data \in ServerCallTool(RequestOn(SessionOf(t)).name,
                                          RequestOn(SessionOf(t)).args,
                                          Collaborator(RequestOn(SessionOf(t)).args)) :
           /\ ExitBody(t, CallToolBody(result_data), "none")
           /\ sessions' = [sessions EXCEPT ![t].reply = <<result_data>>]
    /\ UNCHANGED <<_mcp_client, clients, log, pure>>

\* tools/list is answered: list_tools lines 79-82
ListToolsResponse(t) ==
    /\ tasks[t].pc = "request"
    /\ tasks[t].op \in {"list_tools", "get_mcp_tools_llm", "get_mcp_client"}
    /\ \E tools \in ToolListings :
           /\ ExitBody(t, Return(tools), "none")
           /\ sessions' = [sessions EXCEPT ![t].reply = <<tools>>]
    /\ UNCHANGED <<_mcp_client, clients, log, pure>>

\* the warning of line 125
NoMessagesWarning == LogRecord("WARNING", "returned no messages")

\* prompts/get is answered: get_agent_prompt lines 118-126
GetPromptResponse(t) ==
    /\ tasks[t].pc = "request"
    /\ tasks[t].op = "get_agent_prompt"
    /\ \E prompt_result \in ServerGetPrompt(tasks[t].name) :
           /\ ExitBody(t, GetPromptBody(prompt_result), "none")
           /\ sessions' = [sessions EXCEPT ![t].reply = <<prompt_result>>]
           /\ log' = IF Len(prompt_result.messages) > 0 THEN log
                     ELSE [log EXCEPT ![t] = Append(@, NoMessagesWarning)]
    /\ UNCHANGED <<_mcp_client, clients, pure>>

\* a failed request sent once more on the same session
RequestFailRetry(t) ==
    /\ tasks[t].pc = "request"
    /\ IF Len(sessions[t].wire) < 3
       THEN /\ sessions' = [sessions EXCEPT ![t].wire = Append(@, RequestOf(tasks[t].op))]
            /\ UNCHANGED tasks
       ELSE /\ ExitBody(t, Raise("McpError"), "request")
            /\ UNCHANGED sessions
    /\ UNCHANGED <<_mcp_client, clients, log, pure>>

\* the request fails: the connection drops, or the server answers with an error
RequestFail(t) ==
    /\ tasks[t].pc = "request"
    /\ ExitBody(t, Raise("McpError"), "request")
    /\ UNCHANGED <<_mcp_client, clients, sessions, log, pure>>

\* the caller abandons the call at a suspension point: CancelledError is
\* raised there
Cancel(t) ==
    /\ \/ /\ tasks[t].pc = "connect"
          /\ Finish(t, Cancelled, "cancel")
       \/ /\ tasks[t].pc \in {"initialize", "request"}
          /\ ExitBody(t, Cancelled, "cancel")
          /\ UNCHANGED <<clients, log>>
    /\ UNCHANGED <<_mcp_client, sessions, pure>>

\* a session closed by hand after the body, with no finally: an exception
\* skips the close
CloseSessionOnReturn(t) ==
    /\ tasks[t].pc = "closing"
    /\ sessions' = IF tasks[t].outcome[1] = "return"
                   THEN [sessions EXCEPT ![t].state = "closed"] ELSE sessions
    /\ Finish(t, tasks[t].outcome, tasks[t].fault)
    /\ UNCHANGED <<_mcp_client, pure>>

\* __aexit__ of ClientSession and of sse_client: session and connection are
\* closed, then the operation goes on with the outcome of the block
CloseSession(t) ==
    /\ tasks[t].pc = "closing"
    /\ sessions' = [sessions EXCEPT ![t].state = "closed"]
    /\ Finish(t, tasks[t].outcome, tasks[t].fault)
    /\ UNCHANGED <<_mcp_client, pure>>

ClientIds == 1..Len(clients)

Next ==
    \/ \E t \in Tasks, u \in UrlArgs : StartGetMcpClient(t, u)
    \/ \E t \in Tasks, c \in ClientIds, n \in CalledTools, a \in ArgSets :
           StartCallTool(t, c, n, a)
    \/ \E t \in Tasks, c \in ClientIds : StartListTools(t, c)
    \/ \E t \in Tasks, c \in ClientIds : StartGetMcpToolsLlm(t, c)
    \/ \E t \in Tasks, c \in ClientIds, a \in AgentIds : StartGetAgentPrompt(t, c, a)
    \/ \E t \in Tasks, c \in ClientIds : cleanup(t, c)
    \/ \E t \in Tasks : Connect(t)
    \/ \E t \in Tasks : ConnectFail(t)
    \/ \E t \in Tasks : Initialize(t)
    \/ \E t \in Tasks : InitializeFail(t)
    \/ \E t \in Tasks : CallToolResponse(t)
    \/ \E t \in Tasks : ListToolsResponse(t)
    \/ \E t \in Tasks : GetPromptResponse(t)
    \/ \E t \in Tasks : RequestFail(t)
    \/ \E t \in Tasks : Cancel(t)
    \/ \E t \in Tasks : CloseSession(t)

Spec == Init /\ [][Next]_vars

(***************************************************************************)
(* Properties of the singleton and of the sessions.                        *)
(***************************************************************************)
GetClientCallers == {t \in Tasks : tasks[t].op = "get_mcp_client"}

\* the caller took the branch of lines 204-205: it started a list_tools fetch
Fetched(t) ==
    /\ tasks[t].op = "get_mcp_client"
    /\ \/ tasks[t].pc # "done"
       \/ tasks[t].fault # "none"
       \/ sessions[t].state # "none"

\* the fetch of t is started and line 205 has not assigned its result yet
FetchPending(t) == Fetched(t) /\ tasks[t].pc # "done"

\* the caller got an instance back
Received(t) ==
    tasks[t].op = "get_mcp_client" /\ tasks[t].pc = "done" /\ tasks[t].outcome[1] = "return"

\* C1: concurrent first calls of get_mcp_client perform exactly one
\* list_tools fetch in total (one connect / initialize / tools/list sequence),
\* and every caller that gets an instance gets the same one, the singleton.
C1_SingleFetch ==
    /\ Cardinality({t \in Tasks : Fetched(t)}) <= 1
    /\ GetClientCallers # {} => Cardinality({t \in Tasks : Fetched(t)}) = 1
    /\ Cardinality({t \in GetClientCallers : sessions[t].state # "none"}) <= 1
    /\ \A t \in GetClientCallers :
           sessions[t].state # "none" => sessions[t].wire \in
               {<<"initialize">>, <<"initialize", "tools/list">>}
    /\ \A t \in Tasks : Received(t) => tasks[t].outcome = Return(ClientRef(_mcp_client))
    /\ Len(clients) <= 1

\* two callers overlapped, each has its instance, and one fetch was made
C1_Witness ==
    /\ NumTasks >= 2
    /\ Received(1) /\ Received(2)
    /\ tasks[1].outcome = tasks[2].outcome
    /\ sessions[1].wire = <<"initialize", "tools/list">>
    /\ sessions[2].state = "none"

\* C2: no caller of get_mcp_client receives the instance while the fetch that
\* is to fill its available_tools is still pending and the cache is still the
\* empty list of __init__.
C2_EagerCache ==
    \A t \in Tasks :
        Received(t) =>
            ~(\E u \in Tasks : FetchPending(u))
            \/ clients[tasks[t].outcome[2][2]].available_tools # <<>>

\* C3: call_tool with a name that is not a declared tool fails: its caller
\* gets an exception, never a value.
C3_UnknownToolFails ==
    \A t \in Tasks :
        (tasks[t].op = "call_tool" /\ tasks[t].name \notin ToolNames /\ tasks[t].pc = "done")
            => tasks[t].outcome[1] = "raise"

\* C7: when a public call is not in flight (not started, or returned, failed
\* or abandoned), the session and connection it opened are closed; so with no
\* call in flight nothing is open.
C7_ResourceSafety ==
    /\ \A t \in Tasks :
           tasks[t].pc \in {"idle", "done"} => sessions[t].state \in {"none", "closed"}
    /\ (\A t \in Tasks : tasks[t].pc \in {"idle", "done"})
           => \A t \in Tasks : sessions[t].state # "open" /\ sessions[t].state # "initialized"

\* a call failed at its request, another was abandoned, and both sessions are closed
C7_Witness ==
    \E t \in Tasks :
        /\ tasks[t].op \in {"call_tool", "list_tools", "get_agent_prompt"}
        /\ tasks[t].pc = "done"
        /\ tasks[t].fault \in {"request", "cancel"}
        /\ sessions[t].state = "closed"
        /\ \A u \in Tasks : tasks[u].pc = "done"

Failures == {"connect", "initialize", "request"}

\* C8: when the listing fails at connect, initialize or the request,
\* get_mcp_tools_llm returns the empty list and raises nothing, while
\* list_tools raises the failure to its caller.
C8_DegradeToEmpty ==
    \A t \in Tasks :
        (tasks[t].pc = "done" /\ tasks[t].fault \in Failures) =>
            /\ tasks[t].op = "get_mcp_tools_llm" => tasks[t].outcome = Return(PyList(<<>>))
            /\ tasks[t].op = "list_tools" =>
                   tasks[t].outcome[1] = "raise" /\ tasks[t].outcome[2] # "CancelledError"

C8_Witness ==
    \E t \in Tasks :
        /\ tasks[t].op = "get_mcp_tools_llm"
        /\ tasks[t].pc = "done"
        /\ tasks[t].fault = "initialize"
        /\ tasks[t].outcome = Return(PyList(<<>>))

\* C10: once the singleton exists, a get_mcp_client call, whatever its
\* server_url, returns the singleton at once, leaves _mcp_client, the
\* instance's server_url and available_tools unchanged, and opens no session.
C10_LaterCallsFrame ==
    [][\A t \in Tasks :
          (tasks[t].pc = "idle" /\ tasks'[t].op = "get_mcp_client" /\ _mcp_client # None) =>
              /\ tasks'[t].pc = "done"
              /\ tasks'[t].outcome = Return(ClientRef(_mcp_client))
              /\ _mcp_client' = _mcp_client
              /\ clients' = clients
              /\ sessions' = sessions]_vars

\* a later call with another URL than the singleton's got the singleton
C10_Witness ==
    \E t \in Tasks :
        /\ Received(t)
        /\ ~Fetched(t)
        /\ tasks[t].url = OtherUrl
        /\ clients[_mcp_client].server_url = GetClientDefaultUrl
        /\ clients[_mcp_client].available_tools = DeclaredTools
        /\ tasks[t].outcome = Return(ClientRef(_mcp_client))

(***************************************************************************)
(* The result decoder of call_tool (lines 50-63) on its own: the envelope  *)
(* is drawn from a bounded set, one step decodes it.                       *)
(***************************************************************************)
\* the longest text enumerated, and the most content blocks
MaxTextLen == 3
MaxBlocks == 2

DecodeAlphabet == {"4", "2", "0", "-", "h", " ", "\"", "[", "]", ","}

RECURSIVE SeqsUpTo(_, _)
SeqsUpTo(S, n) ==
    IF n = 0 THEN {<<>>}
    ELSE SeqsUpTo(S, n - 1) \cup {Append(q, e) : q \in SeqsUpTo(S, n - 1), e \in S}

HelloWorld == <<"h", "e", "l", "l", "o", " ", "w", "o", "r", "l", "d">>
ExampleTexts ==
    { HelloWorld,
      <<"t", "r", "u", "e">>,
      <<"n", "u", "l", "l">>,
      <<"{", "\"", "a", "\"", ":", " ", "1", "}">>,
      <<"{", "\"", "a", "\"", ":", " ", "1", ",", "}">>,
      <<"1", ".", "5">>,
      UnknownToolText }

BlockPool == {TextBlock(<<"4", "2">>), TextBlock(<<"h", "i">>), ImageBlock}

DecodeInputs ==
    {Envelope(<<TextBlock(s)>>, FALSE) : s \in SeqsUpTo(DecodeAlphabet, MaxTextLen) \cup ExampleTexts}
    \cup {Envelope(c, e) : c \in SeqsUpTo(BlockPool, MaxBlocks), e \in BOOLEAN}

InitDecode ==
    /\ InitMain
    /\ pure \in {[pc |-> "ready", result_data |-> e, outcome |-> NoOutcome] : e \in DecodeInputs}

\* call_tool from line 50 on, given the answer of line 47
Decode ==
    /\ pure.pc = "ready"
    /\ pure' = [pure EXCEPT !.pc = "done", !.outcome = CallToolBody(pure.result_data)]
    /\ UNCHANGED <<_mcp_client, clients, tasks, sessions, log>>

SpecDecode == InitDecode /\ [][Decode]_vars

\* the payload call_tool decodes, when the envelope has one to read
HasPayload(result_data) ==
    Len(result_data.content) = 0 \/ HasText(result_data.content[1])
PayloadOf(result_data) ==
    IF Len(result_data.content) > 0 THEN result_data.content[1].text
    ELSE StrOfEnvelope(result_data)

\* C4: call_tool returns the parsed JSON value when the payload parses as
\* JSON ("42" gives the integer 42) and the payload itself when it does not
\* ("hello world" gives "hello world"); a parse failure is never raised.
C4_DecodeResult ==
    (pure.pc = "done" /\ HasPayload(pure.result_data)) =>
        LET s == PayloadOf(pure.result_data)
        IN  /\ pure.outcome[1] = "return"
            /\ json_loads(s).ok => pure.outcome[2] = json_loads(s).v
            /\ ~json_loads(s).ok => pure.outcome[2] = PyStr(s)
            /\ s = <<"4", "2">> => pure.outcome[2] = PyInt(42)
            /\ s = <<"[", "4", ",", "2", "]">> => pure.outcome[2] = PyList(<<PyInt(4), PyInt(2)>>)
            /\ s = <<"\"", "h", "\"">> => pure.outcome[2] = PyStr(<<"h">>)
            /\ s = HelloWorld => pure.outcome[2] = PyStr(HelloWorld)
            /\ s = <<"4", " ", "2">> => pure.outcome[2] = PyStr(s)
            /\ s = <<"0", "4">> => pure.outcome[2] = PyStr(s)

C4_Witness ==
    /\ pure.pc = "done"
    /\ pure.result_data.content = <<TextBlock(<<"4", "2">>)>>
    /\ pure.outcome = Return(PyInt(42))

\* the blocks of a content sequence that carry text
TextualBlocks(content) == {i \in 1..Len(content) : HasText(content[i])}
FirstTextual(content) ==
    CHOOSE i \in TextualBlocks(content) : \A j \in TextualBlocks(content) : i <= j

\* C5: the payload decoded is the text of the first textual block when there
\* is one, also behind a block that is not textual, and the rendering of
\* the whole envelope when the content is empty; selecting it never fails.
C5_PayloadSelection ==
    pure.pc = "done" =>
        LET content == pure.result_data.content
        IN  /\ TextualBlocks(content) # {} =>
                   pure.outcome = DecodeText(content[FirstTextual(content)].text)
            /\ Len(content) = 0 => pure.outcome = DecodeText(StrOfEnvelope(pure.result_data))

(***************************************************************************)
(* A tool call end to end: the handler serializes what its collaborator    *)
(* returned, the text travels as one text block, call_tool decodes it.     *)
(***************************************************************************)
\* the most items of a list, tuple or dict a collaborator returns
MaxItems == 2

TextP1 == <<"P", "1">>
RTAtoms ==
    { PyNone, PyBool(TRUE), PyBool(FALSE), PyInt(0), PyInt(42), PyInt(0 - 7),
      PyStr(<<>>), PyStr(TextP1), PyStr(<<"4", "2">>), PyStr(<<"a", "\"", "b">>),
      PyStr(<<"[", "1", "]">>) }
RTKeys == {PyStr(<<"i", "d">>), PyStr(<<"o", "k">>), PyInt(1)}

\* dict items with distinct keys
RTItems ==
    {q \in SeqsUpTo(RTKeys \X RTAtoms, MaxItems) :
        \A i, j \in 1..Len(q) : i # j => q[i][1] # q[j][1]}

InventoryExample ==
    PyDict(<<<<PyStr(<<"p", "r", "o", "d", "u", "c", "t", "_", "i", "d">>), PyStr(TextP1)>>,
             <<PyStr(<<"a", "v", "a", "i", "l", "a", "b", "l", "e">>), PyBool(TRUE)>>>>)

RecommendationsExample ==
    PyList(<<PyDict(<<<<PyStr(<<"i", "d">>), PyStr(TextP1)>>,
                      <<PyStr(<<"t", "a", "g", "s">>), PyList(<<PyStr(<<"a">>), PyInt(1)>>)>>>>),
             PyDict(<<>>)>>)

RoundTripValues ==
    RTAtoms
    \cup {PyList(q) : q \in SeqsUpTo(RTAtoms, MaxItems)}
    \cup {PyTuple(q) : q \in SeqsUpTo(RTAtoms, MaxItems)}
    \cup {PyDict(q) : q \in RTItems}
    \cup {InventoryExample, RecommendationsExample, PyStr(HelloWorld)}

InitRoundTrip ==
    /\ InitMain
    /\ pure \in {[pc |-> "handler", tool |-> n, result |-> v, text |-> <<>>,
                  outcome |-> NoOutcome] : n \in ToolNames, v \in RoundTripValues}

\* a tool handler (lines 34-90) returns; its str is sent as one text block
ToolHandler ==
    /\ pure.pc = "handler"
    /\ pure' = [pure EXCEPT !.pc = "client", !.text = HandlerText(pure.result)]
    /\ UNCHANGED <<_mcp_client, clients, tasks, sessions, log>>

\* call_tool reads the answer and decodes it (lines 47-63)
ClientDecode ==
    /\ pure.pc = "client"
    /\ pure' = [pure EXCEPT !.pc = "done",
                   !.outcome = CallToolBody(Envelope(<<TextBlock(pure.text)>>, FALSE))]
    /\ UNCHANGED <<_mcp_client, clients, tasks, sessions, log>>

NextRoundTrip == ToolHandler \/ ClientDecode

SpecRoundTrip == InitRoundTrip /\ [][NextRoundTrip]_vars

\* built from None, booleans, integers, strings, lists and dicts whose keys
\* are distinct strings
RECURSIVE JsonNative(_)
JsonNative(x) ==
    CASE TypeOf(x) \in {"null", "bool", "int", "str"} -> TRUE
      [] TypeOf(x) = "list" -> \A i \in 1..Len(ValueOf(x)) : JsonNative(ValueOf(x)[i])
      [] TypeOf(x) = "dict" ->
             /\ \A i \in 1..Len(ValueOf(x)) :
                    TypeOf(ValueOf(x)[i][1]) = "str" /\ JsonNative(ValueOf(x)[i][2])
             /\ \A i, j \in 1..Len(ValueOf(x)) :
                    i # j => ValueOf(x)[i][1] # ValueOf(x)[j][1]
      [] OTHER -> FALSE

\* C6, as claimed: for every value a collaborator returns, call_tool
\* returns a value equal to it.
C6_RoundTripEvery ==
    pure.pc = "done" => pure.outcome = Return(pure.result)

\* C6, amended: call_tool returns a value equal to the collaborator's when
\* that value is built from None, booleans, integers, strings, lists and
\* dicts with distinct string keys and is not itself a string that parses as
\* JSON.
C6_RoundTrip ==
    (/\ pure.pc = "done"
     /\ JsonNative(pure.result)
     /\ TypeOf(pure.result) = "str" => ~json_loads(ValueOf(pure.result)).ok)
        => pure.outcome = Return(pure.result)

C6_Witness ==
    /\ pure.pc = "done"
    /\ pure.tool = "check_product_inventory"
    /\ pure.result = InventoryExample
    /\ pure.outcome = Return(InventoryExample)

(***************************************************************************)
(* The conversion of get_mcp_tools_llm on its own: the listing is drawn    *)
(* from a bounded set, one step converts it.                               *)
(***************************************************************************)
\* the most tools a listing holds
MaxTools == 3

DescriptorPool ==
    {Descriptor(n) : n \in ToolNames}
    \cup {[name |-> "ping", description |-> "", inputSchema |-> {}]}

InitAdapter ==
    /\ InitMain
    /\ pure \in {[pc |-> "listed", tools_result |-> q, outcome |-> NoOutcome] :
                    q \in SeqsUpTo(DescriptorPool, MaxTools)}

\* get_mcp_tools_llm once list_tools has returned (lines 95-106)
ConvertTools ==
    /\ pure.pc = "listed"
    /\ pure' = [pure EXCEPT !.pc = "done",
                   !.outcome = OutcomeAfter("get_mcp_tools_llm", None,
                                            Return(pure.tools_result))]
    /\ UNCHANGED <<_mcp_client, clients, tasks, sessions, log>>

SpecAdapter == InitAdapter /\ [][ConvertTools]_vars

\* C9: get_mcp_tools_llm returns one {type: "function", function: {name,
\* description, parameters}} per descriptor of the listing, in the listing's
\* order, with the descriptor's name, description and input schema.
C9_OneSpecPerTool ==
    pure.pc = "done" =>
        /\ pure.outcome[1] = "return"
        /\ TypeOf(pure.outcome[2]) = "list"
        /\ LET out == ValueOf(pure.outcome[2])
               tools == pure.tools_result
           IN  /\ Len(out) = Len(tools)
               /\ \A i \in 1..Len(tools) :
                      /\ DOMAIN out[i] = {"type", "function"}
                      /\ out[i].type = "function"
                      /\ DOMAIN out[i].function = {"name", "description", "parameters"}
                      /\ out[i].function.name = tools[i].name
                      /\ out[i].function.description = tools[i].description
                      /\ out[i].function.parameters = tools[i].inputSchema

C9_Witness ==
    /\ pure.pc = "done"
    /\ pure.tools_result = <<Descriptor("get_customer_discount"),
                             Descriptor("check_product_inventory"),
                             Descriptor("get_customer_discount")>>
    /\ Len(ValueOf(pure.outcome[2])) = 3
    /\ ValueOf(pure.outcome[2])[2].function.name = "check_product_inventory"

(***************************************************************************)
(* Calls of call_tool on one client built by MCPShopperToolsClient(), the  *)
(* handler of each tool being a function of the arguments: the function is *)
(* drawn at the start, the callers then run call_tool concurrently.        *)
(***************************************************************************)
\* the arguments that reach a handler: those binding its parameters
BindingArgs ==
    {a \in ArgSets : \E n \in CalledTools \cap ToolNames : RequiredParams(n) \subseteq a}

InitCalls ==
    /\ _mcp_client = None
    /\ clients = <<NewClient(NoUrl)>>
    /\ tasks = [t \in Tasks |-> IdleTask]
    /\ sessions = [t \in Tasks |-> NoSession]
    /\ log = [t \in Tasks |-> <<>>]
    /\ pure \in {[handler |-> h] : h \in [BindingArgs -> CollabResults]}

NextCalls ==
    \/ \E t \in Tasks, c \in ClientIds, n \in CalledTools, a \in ArgSets :
           StartCallTool(t, c, n, a)
    \/ \E t \in Tasks : Connect(t)
    \/ \E t \in Tasks : ConnectFail(t)
    \/ \E t \in Tasks : Initialize(t)
    \/ \E t \in Tasks : InitializeFail(t)
    \/ \E t \in Tasks : CallToolResponse(t)
    \/ \E t \in Tasks : RequestFail(t)
    \/ \E t \in Tasks : Cancel(t)
    \/ \E t \in Tasks : CloseSession(t)

SpecCalls == InitCalls /\ [][NextCalls]_vars

\* the answers the server may give to the request of caller t
AnswersTo(t) ==
    ServerCallTool(tasks[t].name, tasks[t].args, Collaborator(tasks[t].args))

\* the call of t returned what it decoded
Returned(t) ==
    tasks[t].op = "call_tool" /\ tasks[t].pc = "done" /\ tasks[t].fault = "none"

\* C11: of concurrent call_tool invocations on one client, each has its own
\* session, each caller receives the decoded answer to its own request, in
\* whatever order the calls end, and the client (server_url, available_tools)
\* and the singleton reference stay as they were.
C11_IndependentCalls ==
    /\ \A t \in Tasks :
           tasks[t].op = "call_tool" =>
               /\ sessions[t].state # "none" =>
                      /\ sessions[t].url = clients[tasks[t].self].server_url
                      /\ sessions[t].wire \in {<<"initialize">>, <<"initialize", "tools/call">>}
               /\ Len(sessions[t].reply) > 0 => sessions[t].reply[1] \in AnswersTo(t)
               /\ Returned(t) => tasks[t].outcome = CallToolBody(sessions[t].reply[1])
    /\ clients = <<NewClient(NoUrl)>>
    /\ _mcp_client = None

\* the call issued second has returned the answer to its own request while
\* the first, for another tool, still waits for its answer
C11_Witness ==
    /\ NumTasks >= 2
    /\ tasks[1].op = "call_tool" /\ tasks[1].pc = "request"
    /\ Returned(2)
    /\ tasks[1].name = "no_such_tool" /\ tasks[2].name = "check_product_inventory"
    /\ tasks[2].args = {"product_id"}
    /\ tasks[2].after = {}
    /\ sessions[2].reply[1].isError = FALSE
    /\ tasks[2].outcome[1] = "return"
    /\ tasks[2].outcome[2] \in CollabValues

\* the call of t was issued after the call of u had ended, with the same request
Repeats(t, u) ==
    /\ tasks[t].op = "call_tool" /\ tasks[u].op = "call_tool"
    /\ u \in tasks[t].after
    /\ tasks[t].self = tasks[u].self
    /\ tasks[t].name = tasks[u].name
    /\ tasks[t].args = tasks[u].args

\* C14: when the same call_tool(name, arguments) is issued a second time
\* after the first has returned, against a handler that is a function of its
\* arguments, both calls return equal decoded results; the second call runs
\* on a session of its own and the client is as the first call found it.
C14_RepeatedCall ==
    \A t \in Tasks, u \in Tasks :
        (Repeats(t, u) /\ Returned(t) /\ Returned(u)) =>
            /\ tasks[t].outcome = tasks[u].outcome
            /\ sessions[t].wire = sessions[u].wire
            /\ sessions[t].state = "closed" /\ sessions[u].state = "closed"
            /\ clients = <<NewClient(NoUrl)>>

\* the same inventory request, issued twice in sequence, returned the same
\* decoded value twice
C14_Witness ==
    /\ NumTasks >= 2
    /\ Repeats(2, 1)
    /\ Returned(1) /\ Returned(2)
    /\ tasks[1].name = "check_product_inventory" /\ tasks[1].args = {"product_id"}
    /\ tasks[1].outcome[1] = "return"
    /\ TypeOf(tasks[1].outcome[2]) = "dict"
    /\ tasks[2].outcome = tasks[1].outcome

(***************************************************************************)
(* The protocol of a session.                                              *)
(***************************************************************************)
SessionRank(state) ==
    CASE state = "none" -> 0
      [] state = "open" -> 1
      [] state = "initialized" -> 2
      [] state = "closed" -> 3

\* the session of each call, at each point of the call
SessionShape(t) ==
    LET s == sessions[t]
        request == RequestOf(tasks[t].op)
    IN  /\ s.state = "none" => s.wire = <<>> /\ s.reply = NoReply
        /\ s.state = "open" => s.wire = <<"initialize">> /\ s.reply = NoReply
        /\ s.state = "initialized" => s.wire = <<"initialize", request>>
        /\ s.state = "closed" =>
               /\ s.wire \in {<<"initialize">>, <<"initialize", request>>}
               /\ tasks[t].pc = "done"
        /\ Len(s.reply) > 0 => s.wire = <<"initialize", request>>
        /\ tasks[t].pc = "connect" => s.state = "none"
        /\ tasks[t].pc = "initialize" => s.state = "open"
        /\ tasks[t].pc = "request" => s.state = "initialized" /\ s.reply = NoReply
        /\ (tasks[t].pc = "done" /\ tasks[t].fault \in Failures
              /\ tasks[t].op \in {"call_tool", "list_tools", "get_agent_prompt"}) =>
               /\ tasks[t].outcome[1] = "raise"
               /\ tasks[t].fault = "connect" => s.state = "none"
               /\ tasks[t].fault = "initialize" => s.wire = <<"initialize">>
               /\ tasks[t].fault = "request" =>
                      s.wire = <<"initialize", request>> /\ s.reply = NoReply

\* a step of the session of t: forward only, one message at a time, nothing
\* once it is closed or its call has ended
SessionStep(t) ==
    /\ SessionRank(sessions'[t].state) >= SessionRank(sessions[t].state)
    /\ sessions[t].state = "closed" => sessions'[t] = sessions[t]
    /\ tasks[t].pc = "done" => tasks'[t] = tasks[t] /\ sessions'[t] = sessions[t]
    /\ sessions[t].state # "none" => sessions'[t].url = sessions[t].url
    /\ Len(sessions'[t].wire) <= Len(sessions[t].wire) + 1
    /\ SubSeq(sessions'[t].wire, 1, Len(sessions[t].wire)) = sessions[t].wire
    /\ (sessions[t].state = "none" /\ sessions'[t].state # "none") =>
           sessions'[t].state = "open"
    /\ (sessions[t].state = "open" /\ sessions'[t].state # "open") =>
           sessions'[t].state \in {"initialized", "closed"}

\* C15: every call runs on a session of its own: connect, then one
\* initialize, then one request (tools/call, tools/list or prompts/get), then
\* close, in that order; no request before initialize is answered, nothing
\* after close, and a failure at a step is raised to the caller with no
\* second connect, initialize or request.
C15_SessionProtocol ==
    /\ [](\A t \in Tasks : SessionShape(t))
    /\ [][\A t \in Tasks : SessionStep(t)]_vars

\* a call_tool whose request failed: one initialize and one request were
\* sent, the session is closed, the failure reached the caller
C15_Witness ==
    \E t \in Tasks :
        /\ tasks[t].op = "call_tool"
        /\ tasks[t].pc = "done"
        /\ tasks[t].fault = "request"
        /\ tasks[t].outcome = Raise("McpError")
        /\ sessions[t].wire = <<"initialize", "tools/call">>
        /\ sessions[t].state = "closed"

\* C16: every failure that call_tool, list_tools or get_agent_prompt raises
\* to its caller (at connect, initialize or the request) has an error record
\* in the log by the time the caller gets it.
C16_FailuresLogged ==
    \A t \in Tasks :
        (/\ tasks[t].op \in {"call_tool", "list_tools", "get_agent_prompt"}
         /\ tasks[t].pc = "done"
         /\ tasks[t].fault \in Failures
         /\ tasks[t].outcome[1] = "raise")
            => \E i \in 1..Len(log[t]) : log[t][i].level = "ERROR"

\* the client was created with no explicit server URL
DefaultCreated(t) ==
    tasks[t].op = "get_mcp_client" /\ tasks[t].url = NoUrl /\ Fetched(t)

\* C18: a client created with no explicit server URL, by get_mcp_client()
\* as by MCPShopperToolsClient(), has an endpoint whose path is /sse, the
\* same endpoint for both, and connects to it.
C18_DefaultEndpoint ==
    \A t \in Tasks :
        DefaultCreated(t) =>
            /\ clients[tasks[t].self].server_url[2] = "/sse"
            /\ clients[tasks[t].self].server_url = NewClient(NoUrl).server_url
            /\ sessions[t].state # "none" => sessions[t].url[2] = "/sse"

\* the fetch that get_mcp_client of t started has failed
FetchFailed(t) ==
    /\ tasks[t].op = "get_mcp_client" /\ Fetched(t)
    /\ tasks[t].pc = "done" /\ tasks[t].fault \in Failures

\* C19: when the list_tools fetch of the first get_mcp_client call fails,
\* that caller gets the failure, _mcp_client stays the instance just
\* constructed with available_tools empty, and every other get_mcp_client
\* call returns that instance without a fetch: the cache stays empty.
C19_FailedFirstAccess ==
    \A t \in Tasks :
        FetchFailed(t) =>
            /\ tasks[t].outcome[1] = "raise"
            /\ log[t] = <<LogRecord("ERROR", "Error listing tools")>>
            /\ _mcp_client = tasks[t].self
            /\ clients[_mcp_client].available_tools = <<>>
            /\ \A u \in Tasks \ {t} :
                   tasks[u].op = "get_mcp_client" =>
                       /\ ~Fetched(u)
                       /\ tasks[u].pc = "done"
                       /\ tasks[u].outcome = Return(ClientRef(_mcp_client))

\* the first fetch failed at its request; a later caller got the instance,
\* whose cache is empty
C19_Witness ==
    /\ NumTasks >= 2
    /\ FetchFailed(1)
    /\ tasks[1].fault = "request"
    /\ tasks[1].outcome = Raise("McpError")
    /\ Received(2)
    /\ tasks[2].outcome = Return(ClientRef(1))
    /\ sessions[2].state = "none"
    /\ _mcp_client = 1
    /\ clients[1].available_tools = <<>>

(***************************************************************************)
(* Prompts.                                                                *)
(***************************************************************************)
\* get_agent_prompt of t has received the answer to prompts/get
PromptAnswered(t) ==
    tasks[t].op = "get_agent_prompt" /\ Len(sessions[t].reply) > 0

\* C12: get_agent_prompt, answered with no message, returns the empty string
\* after logging a warning and raises nothing; answered with at least one
\* message, it returns the text of the first message's content.
C12_PromptMessages ==
    \A t \in Tasks :
        PromptAnswered(t) =>
            LET messages == sessions[t].reply[1].messages
            IN  /\ tasks[t].pc \in {"closing", "done"}
                /\ tasks[t].fault = "none"
                /\ IF Len(messages) = 0
                   THEN /\ tasks[t].outcome = Return(PyStr(<<>>))
                        /\ log[t] = <<NoMessagesWarning>>
                   ELSE /\ tasks[t].outcome = Return(PyStr(messages[1].content.text))
                        /\ log[t] = <<>>

\* a get_agent_prompt answered with no message has returned ""
C12_Witness ==
    \E t \in Tasks :
        /\ PromptAnswered(t)
        /\ tasks[t].pc = "done"
        /\ sessions[t].reply[1].messages = <<>>
        /\ tasks[t].outcome = Return(PyStr(<<>>))
        /\ log[t] = <<NoMessagesWarning>>

(***************************************************************************)
(* Prompt resolution on its own: agentPrompt on the server, then           *)
(* get_agent_prompt on the message the handler's text is sent as.          *)
(***************************************************************************)
\* the longest agent name enumerated over NameAlphabet
MaxNameLen == 4

NameAlphabet == {"c", "o", "r", "a", "C", "O", "R", "A", "_"}

ExampleNames ==
    PromptKeys \cup
    { <<"C", "O", "R", "A">>,
      <<"C", "o", "r", "a">>,
      <<"C", "U", "S", "T", "O", "M", "E", "R", "_", "L", "O", "Y", "A", "L", "T", "Y">>,
      <<"C", "u", "s", "t", "o", "m", "e", "r", "_", "l", "o", "y", "a", "l", "t", "y">>,
      <<"C", "u", "s", "t", "o", "m", "e", "r", "_", "L", "o", "y", "a", "l", "t", "y">>,
      <<"D", "I", "S", "C", "O", "U", "N", "T", "_", "L", "O", "G", "I", "C">>,
      <<"D", "i", "s", "c", "o", "u", "n", "t", "_", "l", "o", "g", "i", "c">>,
      <<"D", "i", "s", "c", "o", "u", "n", "t", "_", "L", "o", "g", "i", "c">>,
      <<"I", "N", "T", "E", "R", "I", "O", "R", "_", "D", "E", "S", "I", "G", "N", "E", "R">>,
      <<"I", "n", "t", "e", "r", "i", "o", "r", "_", "d", "e", "s", "i", "g", "n", "e", "r">>,
      <<"I", "n", "t", "e", "r", "i", "o", "r", "_", "D", "e", "s", "i", "g", "n", "e", "r">>,
      <<"I", "N", "V", "E", "N", "T", "O", "R", "Y">>,
      <<"I", "n", "v", "e", "n", "t", "o", "r", "y">>,
      <<"i", "n", "v", "e", "n", "t", "o", "r", "y", " ">>,
      <<"c", "o", "r", "a", "1">>,
      <<"c", "o", "r", "a", "s">>,
      <<"u", "n", "k", "n", "o", "w", "n", "_", "a", "g", "e", "n", "t">>,
      <<"U", "N", "K", "N", "O", "W", "N", "_", "A", "G", "E", "N", "T">>,
      <<"i", "n", "v", "e", "n", "t", "o", "r">>,
      <<>>,
      <<"U", "n", "k", "n", "o", "w", "n", " ", "a", "g", "e", "n", "t", " ", "n", "a", "m", "e">> }

AgentNames == SeqsUpTo(NameAlphabet, MaxNameLen) \cup ExampleNames

InitPrompt ==
    /\ InitMain
    /\ pure \in {[pc |-> "asked", agent_name |-> n, handler |-> <<>>, outcome |-> NoOutcome] :
                    n \in AgentNames}

\* prompts/get of agentPrompt: the handler (server lines 110-129), then
\* get_agent_prompt from line 119 on
ResolvePrompt ==
    /\ pure.pc = "asked"
    /\ pure' = [pure EXCEPT
                   !.pc = "done",
                   !.handler = agentPrompt(pure.agent_name),
                   !.outcome = GetPromptBody(
                       PromptResult(<<PromptMessage(agentPrompt(pure.agent_name))>>))]
    /\ UNCHANGED <<_mcp_client, clients, tasks, sessions, log>>

SpecPrompt == InitPrompt /\ [][ResolvePrompt]_vars

\* sub occurs in text
Contains(text, sub) ==
    \E i \in 0..(Len(text) - Len(sub)) : SubSeq(text, i + 1, i + Len(sub)) = sub

\* C13: for a name whose lower-cased form is not a key of prompt_files, the
\* handler returns a text containing "Unknown agent name" and
\* get_agent_prompt returns that text; for a name whose lower-cased form is
\* a key, the handler returns the file of that key, whatever the letter case
\* of the name.
C13_PromptResolution ==
    pure.pc = "done" =>
        LET n == pure.agent_name
        IN  /\ pure.outcome = Return(PyStr(pure.handler))
            /\ Lower(n) \notin PromptKeys =>
                   /\ Contains(pure.handler, UnknownAgentText)
                   /\ Contains(pure.handler, n)
            /\ Lower(n) \in PromptKeys =>
                   /\ pure.handler = read_prompt_file(prompt_files(Lower(n)))
                   /\ ~Contains(pure.handler, UnknownAgentText)

\* an upper-case name resolved to the file of its lower-case key
C13_Witness ==
    /\ pure.pc = "done"
    /\ pure.agent_name = <<"C", "o", "R", "a">>
    /\ pure.handler = read_prompt_file("ShopperAgentPrompt.txt")
    /\ pure.outcome = Return(PyStr(read_prompt_file("ShopperAgentPrompt.txt")))

(***************************************************************************)
(* The singleton once a first get_mcp_client() has returned it: cleanup,   *)
(* later get_mcp_client calls and list_tools calls on it.                  *)
(***************************************************************************)
InitReady ==
    /\ _mcp_client = 1
    /\ clients = <<[NewClient(GetClientDefaultUrl) EXCEPT !.available_tools = DeclaredTools]>>
    /\ tasks = [t \in Tasks |-> IdleTask]
    /\ sessions = [t \in Tasks |-> NoSession]
    /\ log = [t \in Tasks |-> <<>>]
    /\ pure = <<>>

NextReady ==
    \/ \E t \in Tasks, c \in ClientIds : cleanup(t, c)
    \/ \E t \in Tasks, u \in UrlArgs : StartGetMcpClient(t, u)
    \/ \E t \in Tasks, c \in ClientIds : StartListTools(t, c)
    \/ \E t \in Tasks : Connect(t)
    \/ \E t \in Tasks : ConnectFail(t)
    \/ \E t \in Tasks : Initialize(t)
    \/ \E t \in Tasks : InitializeFail(t)
    \/ \E t \in Tasks : ListToolsResponse(t)
    \/ \E t \in Tasks : RequestFail(t)
    \/ \E t \in Tasks : Cancel(t)
    \/ \E t \in Tasks : CloseSession(t)

SpecReady == InitReady /\ [][NextReady]_vars

\* a step in which caller t runs cleanup()
CleanupStep(t) == tasks[t].pc = "idle" /\ tasks'[t].op = "cleanup"

\* a step in which caller t calls get_mcp_client on a cleaned-up singleton
GetAfterCleanupStep(t) ==
    /\ tasks[t].pc = "idle" /\ tasks'[t].op = "get_mcp_client"
    /\ _mcp_client # None
    /\ clients[_mcp_client]._initialized = "False"

====
